---- MODULE Spec2Model ----
(***************************************************************************)
(* A model of packages/utility/src/utilityHelperFunctions.ts:              *)
(*   find(findPath)  - the explicit-stack directory walk                   *)
(*   match(list, patterns, patternRoot, options) - the pattern filter      *)
(* Paths handed to find are sequences of path components; strings handed   *)
(* to match are sequences of one-character strings.                        *)
(***************************************************************************)
EXTENDS Integers, Sequences, FiniteSets, TLC

\* ------------------------------------------------------------------------
\* Bounds of the filesystem model
\* ------------------------------------------------------------------------
MaxDepth == 2
MaxNodes == 3
MaxChanges == 1

Names == {"a", "b"}
Dot == "."

\* ------------------------------------------------------------------------
\* State
\* ------------------------------------------------------------------------
VARIABLES
    fs,         \* the host filesystem: node -> [kind, entries, target]
    pc,         \* position of the call to find
    findPath,   \* find's parameter (normalized after line 102)
    stack,      \* find's work stack of _FindItem
    result,     \* find's result array
    item,       \* the item popped last
    outcome,    \* what the call returned or threw
    changes,    \* filesystem changes made while the call was running
    ioFault,    \* an I/O failure other than not-found was injected
    sysErr,     \* the error code of the last filesystem call ("" when it succeeded)
    fs0         \* the filesystem as it was when find was called

findVars == <<fs, pc, findPath, stack, result, item, outcome, changes, ioFault, sysErr, fs0>>

VARIABLES
    win32,        \* process.platform == 'win32'
    list,         \* match's parameter list
    patternRoot,  \* match's parameter patternRoot (<<>> when not supplied)
    options,      \* match's parameter options, after the default of line 223
    given,        \* match's parameter patterns, when the caller fixed it beforehand
    todo,         \* the patterns of `given` the loop of line 235 has not reached yet
    count,        \* iterations of the loop of line 235 so far
    map,          \* the keys of the hashtable `map`
    mpc,          \* position of the call to match
    mresult,      \* what match returned
    applied,      \* the last iteration: its pattern and what became of it
    lastInc,      \* the paths of list whose last matching pattern was an include pattern
    round,        \* 1 for match(list, patterns), 2 for match(match(list, patterns), patterns)
    first         \* the result of round 1

matchVars == <<win32, list, patternRoot, options, given, todo, count, map, mpc,
               mresult, applied, lastInc, round, first>>

vars == <<findVars, matchVars>>

\* ------------------------------------------------------------------------
\* The filesystem (fs.lstatSync, fs.statSync, fs.readdirSync)
\* ------------------------------------------------------------------------
Cwd == <<>>
Nodes == UNION {[1..n -> Names] : n \in 1..MaxDepth}
AllNodes == Nodes \cup {Cwd}
NoTarget == <<"?">>
NoEntry == [kind |-> "none", entries |-> <<>>, target |-> NoTarget]
Parent(n) == SubSeq(n, 1, Len(n) - 1)
Last(s) == s[Len(s)]

RECURSIVE SeqWithout(_, _)
SeqWithout(s, x) ==
    IF s = <<>> THEN <<>>
    ELSE IF Head(s) = x THEN SeqWithout(Tail(s), x)
    ELSE <<Head(s)>> \o SeqWithout(Tail(s), x)

NodeCount == Cardinality({n \in Nodes : fs[n].kind # "none"})

\* path.normalize on a relative path held as components: "." and empty
\* components are dropped; an empty result is ".".
RECURSIVE DropDots(_)
DropDots(p) ==
    IF p = <<>> THEN <<>>
    ELSE IF Head(p) = Dot \/ Head(p) = "" THEN DropDots(Tail(p))
    ELSE <<Head(p)>> \o DropDots(Tail(p))

Normalize(p) == IF DropDots(p) = <<>> THEN <<Dot>> ELSE DropDots(p)

\* path.join(item.path, childName): joins, then normalizes
PathJoin(p, childName) == Normalize(p \o <<childName>>)

\* Path resolution as the operating system does it: every link in the middle
\* of the path is followed, the last component only when followLast.
RECURSIVE Resolve(_, _, _, _)
Resolve(f, cur, comps, followLast) ==
    IF comps = <<>> THEN [err |-> "", node |-> cur]
    ELSE IF f[cur].kind # "dir" THEN [err |-> "ENOTDIR", node |-> cur]
    ELSE IF Head(comps) = Dot THEN Resolve(f, cur, Tail(comps), followLast)
    ELSE LET nxt == Append(cur, Head(comps)) IN
         IF nxt \notin Nodes \/ f[nxt].kind = "none"
         THEN [err |-> "ENOENT", node |-> cur]
         ELSE IF f[nxt].kind = "link" /\ (Len(comps) > 1 \/ followLast)
         THEN IF f[nxt].target \in AllNodes /\ f[f[nxt].target].kind = "dir"
              THEN Resolve(f, f[nxt].target, Tail(comps), followLast)
              ELSE [err |-> "ENOENT", node |-> cur]
         ELSE Resolve(f, nxt, Tail(comps), followLast)

\* fs.lstatSync(p): the status of the entry itself
LStat(f, p) ==
    LET r == Resolve(f, Cwd, p, FALSE) IN
    IF r.err # "" THEN [err |-> r.err, isDirectory |-> FALSE, node |-> r.node]
    ELSE [err |-> "", isDirectory |-> f[r.node].kind = "dir", node |-> r.node]

\* fs.statSync(p): the status of what the entry resolves to
Stat(f, p) ==
    LET r == Resolve(f, Cwd, p, TRUE) IN
    IF r.err # "" THEN [err |-> r.err, isDirectory |-> FALSE, node |-> r.node]
    ELSE [err |-> "", isDirectory |-> f[r.node].kind = "dir", node |-> r.node]

\* fs.readdirSync(p): the names in the directory, in its native order
ReadDir(f, p) ==
    LET r == Resolve(f, Cwd, p, TRUE) IN
    IF r.err # "" THEN [err |-> r.err, names |-> <<>>]
    ELSE IF f[r.node].kind # "dir" THEN [err |-> "ENOTDIR", names |-> <<>>]
    ELSE [err |-> "", names |-> f[r.node].entries]

\* ------------------------------------------------------------------------
\* The environment: other programs (and mkdirP, cp) changing the filesystem
\* ------------------------------------------------------------------------
\* Entries are created before find is called; while it runs, entries vanish.
EnvCreate(n, k) ==
    /\ pc = "idle"
    /\ NodeCount < MaxNodes
    /\ fs[n].kind = "none"
    /\ fs[Parent(n)].kind = "dir"
    /\ fs' = [fs EXCEPT ![n] = [kind |-> k, entries |-> <<>>, target |-> NoTarget],
                        ![Parent(n)].entries = Append(@, Last(n))]
    /\ UNCHANGED <<pc, findPath, stack, result, item, outcome, changes, ioFault, sysErr, fs0>>
    /\ UNCHANGED matchVars

EnvLink(n, t) ==
    /\ pc = "idle"
    /\ NodeCount < MaxNodes
    /\ fs[n].kind = "none"
    /\ fs[Parent(n)].kind = "dir"
    /\ fs[t].kind = "dir"
    /\ fs' = [fs EXCEPT ![n] = [kind |-> "link", entries |-> <<>>, target |-> t],
                        ![Parent(n)].entries = Append(@, Last(n))]
    /\ UNCHANGED <<pc, findPath, stack, result, item, outcome, changes, ioFault, sysErr, fs0>>
    /\ UNCHANGED matchVars

EnvRemove(n) ==
    /\ pc \in {"loop", "readdir"}
    /\ changes < MaxChanges
    /\ fs[n].kind # "none"
    /\ fs[n].entries = <<>>
    /\ fs' = [fs EXCEPT ![n] = NoEntry,
                        ![Parent(n)].entries = SeqWithout(@, Last(n))]
    /\ changes' = changes + 1
    /\ UNCHANGED <<pc, findPath, stack, result, item, outcome, ioFault, sysErr, fs0>>
    /\ UNCHANGED matchVars

\* ------------------------------------------------------------------------
\* find
\* ------------------------------------------------------------------------
FindItem(path, level) == [path |-> path, level |-> level]
NoItem == FindItem(<<>>, 0)

Returned(r) == [kind |-> "return", value |-> r, error |-> <<>>]
Thrown(e) == [kind |-> "throw", value |-> <<>>, error |-> e]
NoOutcome == [kind |-> "none", value |-> <<>>, error |-> <<>>]

\* new Error('Failed find: ' + err.message)
FailedFind(err) == <<"Failed find: ", err>>

\* Variant: the status of the link's target decides (fs.statSync)
IsDirectoryFollowing(f, p) == Stat(f, p).isDirectory

\* stats.isDirectory() of the lstat of line 138
IsDirectory(f, p) == LStat(f, p).isDirectory

RECURSIVE Reverse(_)
Reverse(s) == IF s = <<>> THEN <<>> ELSE Append(Reverse(Tail(s)), Head(s))

\* Variant: the child items pushed in listing order
PushChildrenInOrder(stk, it, names) ==
    stk \o [i \in 1..Len(names) |->
               FindItem(PathJoin(it.path, names[i]), it.level + 1)]

\* lines 146-151: the child items, pushed in reverse onto the stack
PushChildren(stk, it, names) ==
    LET childLevel == it.level + 1
        childItems == [i \in 1..Len(names) |->
                          FindItem(PathJoin(it.path, names[i]), childLevel)]
    IN stk \o Reverse(childItems)

\* The paths find may be called with: the empty string, ".", an entry of
\* the working directory, and unnormalized spellings of one.
FindPaths ==
    {<<>>, <<Dot>>} \cup {<<n>> : n \in Names}
    \cup {<<Dot, n>> : n \in Names} \cup {<<n, Dot>> : n \in Names}

\* Variant: a missing root is rethrown like any other error
InitialCheckThrows(e) == IF e # "" THEN "throw" ELSE "walk"

\* lines 108-118: what the first lstat's error code leads to
InitialCheck(e) ==
    IF e = "ENOENT" THEN "empty"
    ELSE IF e # "" THEN "throw"
    ELSE "walk"

\* Variant: an entry that vanished is skipped as if it were a file
AbortsUnlessNotFound(e) == e # "" /\ e # "ENOENT"

\* lines 120, 161-163: inside the try block every error ends the walk
Aborts(e) == e # ""

\* lines 94-125: the parameter check, the normalization, the first lstat
Call(p, fault) ==
    /\ pc = "idle"
    /\ fs0' = fs
    /\ UNCHANGED <<fs, changes, item>>
    /\ IF p = <<>>
       THEN /\ pc' = "done"
            /\ outcome' = Returned(<<>>)
            /\ UNCHANGED <<findPath, stack, result, ioFault, sysErr>>
       ELSE LET np == Normalize(p)
                e == IF fault THEN "EIO" ELSE LStat(fs, np).err
                branch == InitialCheck(e)
            IN /\ findPath' = np
               /\ ioFault' = fault
               /\ sysErr' = e
               /\ IF branch = "empty"
                  THEN /\ pc' = "done"
                       /\ outcome' = Returned(<<>>)
                       /\ UNCHANGED <<stack, result>>
                  ELSE IF branch = "throw"
                  THEN /\ pc' = "done"
                       /\ outcome' = Thrown(<<e>>)
                       /\ UNCHANGED <<stack, result>>
                  ELSE /\ pc' = "loop"
                       /\ stack' = <<FindItem(np, 1)>>
                       /\ result' = <<>>
                       /\ UNCHANGED outcome
    /\ UNCHANGED matchVars

\* lines 127-141, 153-155: pop, record, lstat
StepStat(fault) ==
    /\ pc = "loop"
    /\ stack # <<>>
    /\ LET it == Last(stack)
           e == IF fault THEN "EIO" ELSE LStat(fs, it.path).err
       IN /\ item' = it
          /\ stack' = SubSeq(stack, 1, Len(stack) - 1)
          /\ result' = Append(result, it.path)
          /\ ioFault' = (ioFault \/ fault)
          /\ sysErr' = e
          /\ IF Aborts(e)
             THEN /\ pc' = "done"
                  /\ outcome' = Thrown(FailedFind(e))
             ELSE /\ pc' = IF e = "" /\ IsDirectory(fs, it.path) THEN "readdir" ELSE "loop"
                  /\ UNCHANGED outcome
    /\ UNCHANGED <<fs, findPath, changes, fs0>>
    /\ UNCHANGED matchVars

\* lines 144-151: list the directory, push its children
StepReaddir(fault) ==
    /\ pc = "readdir"
    /\ LET rd == ReadDir(fs, item.path)
           e == IF fault THEN "EIO" ELSE rd.err
       IN /\ ioFault' = (ioFault \/ fault)
          /\ sysErr' = e
          /\ IF Aborts(e)
             THEN /\ pc' = "done"
                  /\ outcome' = Thrown(FailedFind(e))
                  /\ UNCHANGED stack
             ELSE /\ pc' = "loop"
                  /\ stack' = IF e = "" THEN PushChildren(stack, item, rd.names) ELSE stack
                  /\ UNCHANGED outcome
    /\ UNCHANGED <<fs, findPath, result, item, changes, fs0>>
    /\ UNCHANGED matchVars

\* lines 158-159: the stack is empty
Return ==
    /\ pc = "loop"
    /\ stack = <<>>
    /\ pc' = "done"
    /\ outcome' = Returned(result)
    /\ UNCHANGED <<fs, findPath, stack, result, item, changes, ioFault, sysErr, fs0>>
    /\ UNCHANGED matchVars


\* ------------------------------------------------------------------------
\* Strings: sequences of one-character strings
\* ------------------------------------------------------------------------
MaxList == 2
MaxPatterns == 2

Slash == "/"
Backslash == "\\"
Letters == {"a", "b", "d", "r", "C"}

\* _startsWith: str.slice(0, start.length) == start
StartsWith(str, start) ==
    Len(str) >= Len(start) /\ SubSeq(str, 1, Len(start)) = start

\* _endsWith: str.slice(-end.length) == end
EndsWith(str, end) ==
    Len(str) >= Len(end) /\ SubSeq(str, Len(str) - Len(end) + 1, Len(str)) = end

RECURSIVE TrimLeft(_)
TrimLeft(str) ==
    IF str # <<>> /\ Head(str) = " " THEN TrimLeft(Tail(str)) ELSE str

RECURSIVE TrimRight(_)
TrimRight(str) ==
    IF str # <<>> /\ Last(str) = " " THEN TrimRight(SubSeq(str, 1, Len(str) - 1)) ELSE str

\* String.prototype.trim
Trim(str) == TrimRight(TrimLeft(str))

\* lines 260-262: while (pattern.charAt(negateCount) == '!') negateCount++
RECURSIVE LeadingCount(_, _)
LeadingCount(str, c) ==
    IF str # <<>> /\ Head(str) = c THEN 1 + LeadingCount(Tail(str), c) ELSE 0

\* str.replace(/<from>/g, to) for a one-character from
ReplaceAll(str, from, to) ==
    [i \in 1..Len(str) |-> IF str[i] = from THEN to ELSE str[i]]

Contains(str, c) == \E i \in 1..Len(str) : str[i] = c

\* str.replace(/cc+/g, c): every run of two or more c becomes one c
RECURSIVE Collapse(_, _)
Collapse(str, c) ==
    IF Len(str) < 2 THEN str
    ELSE IF str[1] = c /\ str[2] = c THEN Collapse(Tail(str), c)
    ELSE <<Head(str)>> \o Collapse(Tail(str), c)

\* str.split(/\/+/)
RECURSIVE SplitSlash(_)
SplitSlash(str) ==
    IF str = <<>> THEN << <<>> >>
    ELSE IF Head(str) = Slash
         THEN LET rest == SubSeq(str, LeadingCount(str, Slash) + 1, Len(str))
              IN << <<>> >> \o SplitSlash(rest)
    ELSE LET r == SplitSlash(Tail(str))
         IN << <<Head(str)>> \o r[1] >> \o Tail(r)

\* str.split(',')
RECURSIVE SplitComma(_)
SplitComma(str) ==
    IF str = <<>> THEN << <<>> >>
    ELSE IF Head(str) = "," THEN << <<>> >> \o SplitComma(Tail(str))
    ELSE LET r == SplitComma(Tail(str))
         IN << <<Head(str)>> \o r[1] >> \o Tail(r)

\* The index of the first c in str at or after position i, 0 when there is none
RECURSIVE IndexFrom(_, _, _)
IndexFrom(str, c, i) ==
    IF i > Len(str) THEN 0
    ELSE IF str[i] = c THEN i
    ELSE IndexFrom(str, c, i + 1)

SetOf(sq) == {sq[i] : i \in 1..Len(sq)}

\* ------------------------------------------------------------------------
\* _normalizeSeparators, _isRooted, _ensureRooted (lines 369-424)
\* ------------------------------------------------------------------------
\* /^\\\\+[^\\]/ : two or more backslashes, then another character
IsUnc(p) ==
    LET n == LeadingCount(p, Backslash) IN n >= 2 /\ Len(p) > n

NormalizeSeparators(p, win) ==
    IF win
    THEN LET q == ReplaceAll(p, Slash, Backslash)
         IN (IF IsUnc(q) THEN <<Backslash>> ELSE <<>>) \o Collapse(q, Backslash)
    ELSE Collapse(p, Slash)

\* /^[A-Z]:/i
HasDrivePrefix(p) == Len(p) >= 2 /\ p[1] \in Letters /\ p[2] = ":"

IsRooted(p, win) ==
    LET q == NormalizeSeparators(p, win) IN
    IF win THEN StartsWith(q, <<Backslash>>) \/ HasDrivePrefix(q)
    ELSE StartsWith(q, <<Slash>>)

\* path.sep
PathSep(win) == IF win THEN Backslash ELSE Slash

\* Variant: the separator is appended whatever the root ends with
EnsureRootedAlwaysSep(root, p, win) ==
    IF IsRooted(p, win) THEN p ELSE root \o <<PathSep(win)>> \o p

EnsureRooted(root, p, win) ==
    IF IsRooted(p, win) THEN p
    ELSE IF win /\ Len(root) = 2 /\ HasDrivePrefix(root) THEN root \o p
    ELSE IF EndsWith(root, <<Slash>>) \/ (win /\ EndsWith(root, <<Backslash>>))
         THEN root \o p
    ELSE root \o <<PathSep(win)>> \o p

\* ------------------------------------------------------------------------
\* minimatch: the part of the library match relies on. Patterns are made of
\* literal characters, '*', one-character classes '[..]', a backslash escape
\* (not on win32, where the library turns backslashes into slashes) and '/'.
\* ------------------------------------------------------------------------
RECURSIVE SegMatch(_, _, _)
SegMatch(f, p, atStart) ==
    IF p = <<>> THEN f = <<>>
    ELSE IF Head(p) = "*"
    THEN /\ (atStart => f # <<>>)
         /\ \E k \in 0..Len(f) : SegMatch(SubSeq(f, k + 1, Len(f)), Tail(p), FALSE)
    ELSE IF Head(p) = Backslash /\ Len(p) >= 2
    THEN /\ f # <<>>
         /\ Head(f) = p[2]
         /\ SegMatch(Tail(f), SubSeq(p, 3, Len(p)), FALSE)
    ELSE IF Head(p) = "[" /\ IndexFrom(p, "]", 3) > 0
    THEN LET j == IndexFrom(p, "]", 3) IN
         /\ f # <<>>
         /\ Head(f) \in SetOf(SubSeq(p, 2, j - 1))
         /\ SegMatch(Tail(f), SubSeq(p, j + 1, Len(p)), FALSE)
    ELSE /\ f # <<>>
         /\ Head(f) = Head(p)
         /\ SegMatch(Tail(f), Tail(p), FALSE)

\* Minimatch.prototype.matchOne, without globstar
RECURSIVE MatchOne(_, _)
MatchOne(file, pattern) ==
    IF pattern = <<>> THEN file = <<>> \/ file = << <<>> >>
    ELSE IF file = <<>> THEN FALSE
    ELSE SegMatch(Head(file), Head(pattern), TRUE) /\ MatchOne(Tail(file), Tail(pattern))

\* the last part of the file that is not empty
RECURSIVE Filename(_)
Filename(file) ==
    IF Len(file) <= 1 \/ Last(file) # <<>> THEN Last(file)
    ELSE Filename(SubSeq(file, 1, Len(file) - 1))

\* Minimatch.prototype.match for one file, called with nocomment, nonegate
\* and nobrace set (lines 255, 275, 293)
Glob(f, pattern, opts, win) ==
    LET pat == IF win THEN ReplaceAll(pattern, Backslash, Slash) ELSE pattern
        ff == IF win THEN ReplaceAll(f, Backslash, Slash) ELSE f
        set == SplitSlash(pat)
        file == SplitSlash(ff)
    IN IF pat = <<>> THEN ff = <<>>
       ELSE IF opts.matchBase /\ Len(set) = 1 THEN MatchOne(<<Filename(file)>>, set)
       ELSE MatchOne(file, set)

\* minimatch.match(list, pattern, options): the files that match; with
\* nonull, the pattern itself when no file matches
MinimatchMatch(lst, pattern, opts, win) ==
    LET hits == SelectSeq(lst, LAMBDA f : Glob(f, pattern, opts, win)) IN
    IF opts.nonull /\ hits = <<>> THEN <<pattern>> ELSE hits

\* minimatch.braceExpand for groups that are not nested: the first {x,y}
\* group is replaced by each alternative in turn; a group without a comma
\* stays as it is
RECURSIVE BraceExpand(_)
BraceExpand(str) ==
    LET i == IndexFrom(str, "{", 1)
        j == IF i = 0 THEN 0 ELSE IndexFrom(str, "}", i + 1)
    IN IF i = 0 \/ j = 0 THEN <<str>>
       ELSE LET pre == SubSeq(str, 1, i - 1)
                inner == SubSeq(str, i + 1, j - 1)
                posts == BraceExpand(SubSeq(str, j + 1, Len(str)))
                alts == IF Contains(inner, ",") THEN SplitComma(inner)
                        ELSE << <<"{">> \o inner \o <<"}">> >>
            IN [k \in 1..(Len(alts) * Len(posts)) |->
                   pre \o alts[((k - 1) \div Len(posts)) + 1]
                       \o posts[((k - 1) % Len(posts)) + 1]]

\* ------------------------------------------------------------------------
\* match
\* ------------------------------------------------------------------------
Undefined == [undefined |-> TRUE]

\* _getDefaultMatchOptions (lines 190-204)
DefaultMatchOptions(win) ==
    [debug |-> FALSE, nobrace |-> TRUE, noglobstar |-> FALSE, dot |-> TRUE,
     noext |-> FALSE, nocase |-> win, nonull |-> FALSE, matchBase |-> FALSE,
     nocomment |-> FALSE, nonegate |-> FALSE, flipNegate |-> FALSE]

\* line 223: options = options || _getDefaultMatchOptions()
OrDefault(o, win) == IF o = Undefined THEN DefaultMatchOptions(win) ELSE o

\* _cloneMatchOptions (lines 348-362)
CloneMatchOptions(o) ==
    [debug |-> o.debug, nobrace |-> o.nobrace, noglobstar |-> o.noglobstar,
     dot |-> o.dot, noext |-> o.noext, nocase |-> o.nocase, nonull |-> o.nonull,
     matchBase |-> o.matchBase, nocomment |-> o.nocomment, nonegate |-> o.nonegate,
     flipNegate |-> o.flipNegate]

\* Variant: a pattern is an include pattern exactly when the parity says so
IsIncludeByParityOnly(negateCount, flipNegate) ==
    (negateCount % 2 = 0) # flipNegate

\* Variant: any leading '!' makes an exclude pattern
IsIncludeWithoutBang(negateCount, flipNegate) ==
    (negateCount = 0) # flipNegate

\* lines 270-272
IsIncludePattern(negateCount, flipNegate) ==
    \/ negateCount = 0
    \/ (negateCount % 2 = 0 /\ ~flipNegate)
    \/ (negateCount % 2 = 1 /\ flipNegate)

\* lines 307-315: the pattern the sub-pattern is applied as
RootPattern(root, pattern, opts, win) ==
    IF /\ root # <<>>
       /\ ~IsRooted(pattern, win)
       /\ (~opts.matchBase
           \/ Contains(IF win THEN ReplaceAll(pattern, Backslash, Slash) ELSE pattern, Slash))
    THEN EnsureRooted(root, pattern, win)
    ELSE pattern

\* lines 295-339: the expanded patterns, applied one after the other.
\* acc is [map, subs]: the keys of map and the patterns applied so far.
RECURSIVE ApplyExpanded(_, _, _, _, _, _, _)
ApplyExpanded(acc, expanded, isInclude, lst, root, opts, win) ==
    IF expanded = <<>> THEN acc
    ELSE LET pattern == Trim(Head(expanded)) IN
         IF pattern = <<>>
         THEN ApplyExpanded(acc, Tail(expanded), isInclude, lst, root, opts, win)
         ELSE LET rooted == RootPattern(root, pattern, opts, win)
                  matchResults == MinimatchMatch(lst, rooted, opts, win)
                  m == IF isInclude THEN acc.map \cup SetOf(matchResults)
                       ELSE acc.map \ SetOf(matchResults)
                  sub == [sub |-> pattern, effective |-> rooted]
              IN ApplyExpanded([map |-> m, subs |-> Append(acc.subs, sub)],
                               Tail(expanded), isInclude, lst, root, opts, win)

Skipped(m, raw) ==
    [pattern |-> raw, skipped |-> TRUE, negateCount |-> 0, include |-> TRUE,
     subs |-> <<>>, before |-> m, map |-> m]

\* lines 235-340: one iteration of the loop over the patterns
Iteration(m, raw, lst, root, originalOptions, win) ==
    LET trimmed == Trim(raw)
        cloned == CloneMatchOptions(originalOptions)
    IN IF trimmed = <<>> THEN Skipped(m, raw)
       ELSE IF ~cloned.nocomment /\ StartsWith(trimmed, <<"#">>) THEN Skipped(m, raw)
       ELSE LET negateCount == IF ~cloned.nonegate THEN LeadingCount(trimmed, "!") ELSE 0
                pattern == SubSeq(trimmed, negateCount + 1, Len(trimmed))
                isInclude == IsIncludePattern(negateCount, cloned.flipNegate)
                expanded == IF cloned.nobrace THEN <<pattern>>
                            ELSE BraceExpand(IF win
                                             THEN ReplaceAll(pattern, Backslash, Slash)
                                             ELSE pattern)
                opts == [cloned EXCEPT !.nocomment = TRUE, !.nonegate = TRUE,
                                       !.flipNegate = FALSE, !.nobrace = TRUE]
                done == ApplyExpanded([map |-> m, subs |-> <<>>], expanded, isInclude,
                                      lst, root, opts, win)
            IN [pattern |-> raw, skipped |-> FALSE, negateCount |-> negateCount,
                include |-> isInclude, subs |-> done.subs, before |-> m,
                map |-> done.map]

\* Variant: the keys of the hashtable, in the order of the list, then the rest
KeysOfMap(lst, m) ==
    LET extra == m \ SetOf(lst)
        RECURSIVE AsSeq(_)
        AsSeq(S) == IF S = {} THEN <<>>
                    ELSE LET x == CHOOSE y \in S : TRUE IN <<x>> \o AsSeq(S \ {x})
    IN SelectSeq(lst, LAMBDA x : x \in m) \o AsSeq(extra)

\* line 343: list.filter(item => map.hasOwnProperty(item))
FilterList(lst, m) == SelectSeq(lst, LAMBDA x : x \in m)

\* match as a function of its parameters
RECURSIVE FoldPatterns(_, _, _, _, _, _)
FoldPatterns(m, patterns, lst, root, opts, win) ==
    IF patterns = <<>> THEN m
    ELSE FoldPatterns(Iteration(m, Head(patterns), lst, root, opts, win).map,
                      Tail(patterns), lst, root, opts, win)

MatchFn(lst, patterns, root, opts, win) ==
    FilterList(lst, FoldPatterns({}, patterns, lst, root, opts, win))

\* Does the pattern of iteration it match path x (nonull set aside)?
IterationMatches(it, x, opts, win) ==
    /\ ~it.skipped
    /\ \E i \in 1..Len(it.subs) :
          Glob(x, it.subs[i].effective, [opts EXCEPT !.nobrace = TRUE], win)

NoApplied == Skipped({}, <<>>)

\* One iteration of the loop of line 235 with pattern raw
Iterate(raw) ==
    /\ applied' = Iteration(map, raw, list, patternRoot, options, win32)
    /\ map' = applied'.map
    /\ count' = count + 1
    /\ lastInc' = {x \in SetOf(list) :
                      IF IterationMatches(applied', x, options, win32)
                      THEN applied'.include ELSE x \in lastInc}
    /\ UNCHANGED <<win32, list, patternRoot, options, given, mpc, mresult, round, first>>
    /\ UNCHANGED findVars

\* The caller's array turns out to hold one more pattern
ProcessNext(raw) ==
    /\ mpc = "loop"
    /\ count < MaxPatterns
    /\ Iterate(raw)
    /\ UNCHANGED todo

\* The next pattern of an array fixed beforehand
ProcessGiven ==
    /\ mpc = "loop"
    /\ todo # <<>>
    /\ Iterate(Head(todo))
    /\ todo' = Tail(todo)

\* lines 342-345
Finish ==
    /\ mpc = "loop"
    /\ todo = <<>>
    /\ mpc' = "done"
    /\ mresult' = FilterList(list, map)
    /\ UNCHANGED <<win32, list, patternRoot, options, given, todo, count, map,
                   applied, lastInc, round, first>>
    /\ UNCHANGED findVars

\* match(match(list, patterns), patterns): the second call
Again ==
    /\ mpc = "done"
    /\ round = 1
    /\ round' = 2
    /\ first' = mresult
    /\ list' = mresult
    /\ todo' = given
    /\ map' = {}
    /\ count' = 0
    /\ mpc' = "loop"
    /\ applied' = NoApplied
    /\ lastInc' = {}
    /\ UNCHANGED <<win32, patternRoot, options, given, mresult>>
    /\ UNCHANGED findVars

\* Sequences over S of length at most n
SeqsUpTo(S, n) == UNION {[1..k -> S] : k \in 0..n}

MatchStart(w, l, r, o, g) ==
    /\ win32 = w
    /\ list = l
    /\ patternRoot = r
    /\ options = OrDefault(o, w)
    /\ given = g
    /\ todo = g
    /\ count = 0
    /\ map = {}
    /\ mpc = "loop"
    /\ mresult = <<>>
    /\ applied = NoApplied
    /\ lastInc = {}
    /\ round = 1
    /\ first = <<>>

MatchIdle ==
    MatchStart(FALSE, <<>>, <<>>, Undefined, <<>>)

\* ------------------------------------------------------------------------
\* Specifications
\* ------------------------------------------------------------------------
FindInit ==
    /\ fs = [n \in AllNodes |->
               IF n = Cwd THEN [kind |-> "dir", entries |-> <<>>, target |-> NoTarget]
               ELSE NoEntry]
    /\ pc = "idle"
    /\ findPath = <<>>
    /\ stack = <<>>
    /\ result = <<>>
    /\ item = NoItem
    /\ outcome = NoOutcome
    /\ changes = 0
    /\ ioFault = FALSE
    /\ sysErr = ""
    /\ fs0 = fs

FindNext ==
    \/ \E n \in Nodes, k \in {"file", "dir"} : EnvCreate(n, k)
    \/ \E n \in Nodes, t \in AllNodes : EnvLink(n, t)
    \/ \E n \in Nodes : EnvRemove(n)
    \/ \E p \in FindPaths, fault \in BOOLEAN : Call(p, fault)
    \/ \E fault \in BOOLEAN : StepStat(fault)
    \/ \E fault \in BOOLEAN : StepReaddir(fault)
    \/ Return

FindSpecInit ==
    /\ FindInit
    /\ MatchIdle

FindSpec == FindSpecInit /\ [][FindNext]_vars

\* Strings of the inputs
S_a == <<"a">>
S_b == <<"b">>
S_star == <<"*">>
S_class == <<"[", "a", "]">>
S_hash == <<"#", "a">>
S_bang == <<"!", "a">>
S_blank == <<" ">>
S_sp_hash == <<" ", "#", "a">>
S_sp_bang == <<" ", "!", "a">>
S_r == <<"/", "r">>
S_r_slash == <<"/", "r", "/">>
S_drive == <<"C", ":">>
S_r_a == <<"/", "r", "/", "a">>
S_r_d_a == <<"/", "r", "/", "d", "/", "a">>
S_slash_a == <<"/", "a">>
S_d_a == <<"d", "/", "a">>
S_bs_a == <<"\\", "a">>
S_d_bs_a == <<"d", "\\", "a">>
S_drive_a == <<"C", ":", "a">>
S_brace == <<"{", "a", ",", "/", "a", "}">>

Bangs == {<<>>, <<"!">>, <<"!", "!">>, <<"!", "!", "!">>}

OptionSets(nobraces, nonulls, matchBases, nocomments, nonegates, flipNegates) ==
    {[DefaultMatchOptions(FALSE) EXCEPT !.nobrace = f[1], !.nonull = f[2],
         !.matchBase = f[3], !.nocomment = f[4], !.nonegate = f[5], !.flipNegate = f[6]] :
       f \in nobraces \X nonulls \X matchBases \X nocomments \X nonegates \X flipNegates}

\* match on unrooted patterns: comments and negation
MatchPaths == {S_a, S_hash, S_bang}
MatchBodies == {S_a, S_star, S_hash, S_sp_hash, S_sp_bang}
MatchPatterns == {b \o body : b \in Bangs, body \in MatchBodies} \cup {S_blank}
MatchOptionArgs ==
    {Undefined} \cup OptionSets({TRUE}, BOOLEAN, {FALSE}, BOOLEAN, {FALSE}, BOOLEAN)

MatchInit ==
    /\ FindInit
    /\ \E l \in SeqsUpTo(MatchPaths, MaxList), o \in MatchOptionArgs :
          MatchStart(FALSE, l, <<>>, o, <<>>)

MatchNext ==
    \/ \E raw \in MatchPatterns : ProcessNext(raw)
    \/ Finish

MatchSpec == MatchInit /\ [][MatchNext]_vars

\* match with a patternRoot, on both platforms
RootPaths == {S_r_a, S_r_d_a}
RootRoots == {<<>>, S_r, S_r_slash, S_drive}
RootPatterns == {S_a, S_slash_a, S_d_a, S_bs_a, S_d_bs_a, S_drive_a, S_brace, S_bang}
RootOptionArgs ==
    {Undefined} \cup OptionSets(BOOLEAN, {FALSE}, BOOLEAN, {FALSE}, {FALSE}, {FALSE})

RootInit ==
    /\ FindInit
    /\ \E w \in BOOLEAN, l \in SeqsUpTo(RootPaths, MaxList), r \in RootRoots,
          o \in RootOptionArgs :
          MatchStart(w, l, r, o, <<>>)

RootNext ==
    \/ \E raw \in RootPatterns : ProcessNext(raw)
    \/ Finish

RootSpec == RootInit /\ [][RootNext]_vars

\* match on a pattern array fixed beforehand, then called again on its own
\* result with the same patterns and options
IdemPaths == {S_a, S_b, S_class}
IdemPatterns == {S_star, S_class, S_bang, <<"!">> \o S_class}
IdemOptionArgs ==
    {Undefined} \cup OptionSets({TRUE}, BOOLEAN, {FALSE}, {FALSE}, BOOLEAN, BOOLEAN)

IdemInit ==
    /\ FindInit
    /\ \E l \in SeqsUpTo(IdemPaths, MaxList), g \in SeqsUpTo(IdemPatterns, MaxPatterns),
          o \in IdemOptionArgs :
          MatchStart(FALSE, l, <<>>, o, g)

IdemNext ==
    \/ ProcessGiven
    \/ Finish
    \/ Again

IdemSpec == IdemInit /\ [][IdemNext]_vars

\* ------------------------------------------------------------------------
\* Claims about find
\* ------------------------------------------------------------------------
\* The node a path of the result names (no link is crossed by such a path)
NodeOf(p) == DropDots(p)
\* The spelling find gives a node: "." for the working directory
PathOf(n) == IF n = Cwd THEN <<Dot>> ELSE n

RECURSIVE PreOrder(_, _)
RECURSIVE PreOrderAll(_, _, _)
\* The depth-first pre-order listing of the tree under node n of filesystem f
PreOrder(f, n) ==
    <<n>> \o (IF f[n].kind = "dir" THEN PreOrderAll(f, n, f[n].entries) ELSE <<>>)
PreOrderAll(f, n, names) ==
    IF names = <<>> THEN <<>>
    ELSE PreOrder(f, Append(n, Head(names))) \o PreOrderAll(f, n, Tail(names))

PassedCheck == pc \in {"loop", "readdir"} \/ result # <<>>
RootExisted == findPath # <<>> /\ LStat(fs0, findPath).err = ""
Undisturbed == changes = 0 /\ ~ioFault

\* C1: on an unchanging tree whose root exists, and with no I/O failure,
\* find returns the depth-first pre-order listing of the tree: the root
\* first, every descendant once, a parent before its children, the children
\* of a directory in the order the directory listing gave them.
C1_FindPreOrder ==
    (pc = "done" /\ RootExisted /\ Undisturbed) =>
        LET expected == PreOrder(fs0, LStat(fs0, findPath).node) IN
        /\ outcome.kind = "return"
        /\ outcome.value = [i \in 1..Len(expected) |-> PathOf(expected[i])]

C1_Witness ==
    /\ pc = "done" /\ Undisturbed
    /\ findPath = <<Dot>>
    /\ fs0[Cwd].entries = <<"b", "a">>
    /\ fs0[<<"b">>].entries = <<"a">>
    /\ outcome = Returned(<<  <<Dot>>, <<"b">>, <<"b", "a">>, <<"a">>  >>)

\* C3: find on a path that does not exist when the call starts returns the
\* empty sequence and raises no error.
C3_MissingRootIsEmpty ==
    (pc = "done" /\ findPath # <<>> /\ ~ioFault
        /\ LStat(fs0, findPath).err = "ENOENT") => outcome = Returned(<<>>)

C3_Witness ==
    /\ pc = "done" /\ ~ioFault
    /\ findPath = <<"a">>
    /\ fs0[<<"a">>].kind = "none"
    /\ fs0[<<"b">>].kind = "dir"
    /\ outcome = Returned(<<>>)

\* A path lies beneath a symbolic link when one of its proper prefixes was
\* a symbolic link when find was called.
BeneathLink(p) ==
    \E k \in 1..(Len(p) - 1) :
        /\ SubSeq(p, 1, k) \in Nodes
        /\ fs0[SubSeq(p, 1, k)].kind = "link"

\* C8: find never expands a symbolic link: no path of the result (nor one
\* waiting on the stack) lies beneath a symbolic link, so a link is a leaf
\* of the output even when it resolves to a directory or to an ancestor.
C8_NoPathBeneathLink ==
    /\ \A i \in 1..Len(result) : ~BeneathLink(result[i])
    /\ \A i \in 1..Len(stack) : ~BeneathLink(stack[i].path)
    /\ \A i \in 1..Len(outcome.value) : ~BeneathLink(outcome.value[i])

C8_Witness ==
    /\ pc = "done" /\ Undisturbed
    /\ outcome.kind = "return"
    /\ \E i \in 1..Len(outcome.value) :
          LET n == NodeOf(outcome.value[i]) IN
          /\ n \in Nodes
          /\ fs0[n].kind = "link"
          /\ fs0[n].target = Parent(n)
          /\ Len(n) = 2
          /\ \E j \in 1..Len(outcome.value) : outcome.value[j] = Parent(n)

\* C10: once the first existence check has passed, any failure of a stat or
\* of a directory listing (a not-found for a vanished entry included) ends
\* the call with an error wrapping the cause and no result; the only failure
\* answered with an empty result is the root missing at the start.
C10_FailureAborts ==
    /\ (PassedCheck /\ sysErr # "") =>
          (pc = "done" /\ outcome = Thrown(FailedFind(sysErr)))
    /\ (pc = "done" /\ sysErr # "" /\ outcome.kind = "return") =>
          (sysErr = "ENOENT" /\ ~PassedCheck /\ outcome.value = <<>>)

C10_Witness ==
    /\ pc = "done"
    /\ ~ioFault /\ changes = 1
    /\ sysErr = "ENOENT"
    /\ Len(result) >= 2
    /\ outcome = Thrown(FailedFind("ENOENT"))

\* ------------------------------------------------------------------------
\* Claims about match
\* ------------------------------------------------------------------------
RECURSIVE IsSubsequence(_, _)
\* a can be had from b by deleting elements
IsSubsequence(a, b) ==
    IF a = <<>> THEN TRUE
    ELSE IF b = <<>> THEN FALSE
    ELSE IF Head(a) = Head(b) THEN IsSubsequence(Tail(a), Tail(b))
    ELSE IsSubsequence(a, Tail(b))

NoDuplicates(sq) == \A i, j \in 1..Len(sq) : sq[i] = sq[j] => i = j
Occurrences(sq, x) == Cardinality({i \in 1..Len(sq) : sq[i] = x})

\* C2 as stated: the result is a subsequence of the list, in the list's
\* order, holds no string that is not in the list, and has no duplicates.
C2_Original ==
    mpc = "done" =>
        /\ IsSubsequence(mresult, list)
        /\ SetOf(mresult) \subseteq SetOf(list)
        /\ NoDuplicates(mresult)

\* C2: the result is a subsequence of the list, in the list's order, and
\* holds no string that is not in the list; a string is in the result as
\* often as it is in the list or not at all, so the result has duplicates
\* only when the list has them.
C2_SubsequenceOfList ==
    mpc = "done" =>
        /\ IsSubsequence(mresult, list)
        /\ SetOf(mresult) \subseteq SetOf(list)
        /\ \A x \in SetOf(mresult) : Occurrences(mresult, x) = Occurrences(list, x)
        /\ NoDuplicates(list) => NoDuplicates(mresult)

C2_Witness ==
    /\ mpc = "done" /\ round = 1
    /\ ~options.nonull /\ ~options.nonegate /\ ~options.flipNegate
    /\ list = <<S_class, S_a>>
    /\ given = <<S_star, S_class>>
    /\ mresult = <<S_class, S_a>>

\* C6 as stated: match(match(L, P), P) = match(L, P)
C6_Idempotent ==
    (mpc = "done" /\ round = 2) => mresult = first

\* C9 as stated: a path of the list is in the result exactly when some
\* pattern matches it and the last pattern that matches it is an include
\* pattern.
C9_LastMatchDecides ==
    mpc = "done" => mresult = FilterList(list, lastInc)

\* The pattern of the last iteration, trimmed, and its run of leading '!'
LastPattern == Trim(applied.pattern)
LastBangs == LeadingCount(LastPattern, "!")
DropFirst(str, n) == SubSeq(str, n + 1, Len(str))
PlainNegation == ~options.nonegate /\ ~options.flipNegate
SoleMatch(pattern) == MatchFn(list, <<pattern>>, patternRoot, options, win32)

\* What an exclude pattern does: it removes every path its body matches
\* and adds none.
ActsAsExclude ==
    /\ applied.map \subseteq applied.before
    /\ applied.map \cap SetOf(SoleMatch(DropFirst(LastPattern, LastBangs))) = {}

\* C4 as stated: with negation enabled and not inverted, match(L, '!!foo')
\* equals match(L, 'foo') for every foo, and a pattern with an odd count of
\* leading '!' acts as an exclude pattern.
C4_Original ==
    PlainNegation =>
        /\ (mpc = "done" /\ count = 1 /\ StartsWith(LastPattern, <<"!", "!">>)) =>
              mresult = SoleMatch(DropFirst(LastPattern, 2))
        /\ (count >= 1 /\ LastBangs % 2 = 1) => ActsAsExclude

\* foo is read as a pattern of its own in the same way as behind '!!':
\* trimmed, it does not begin with '#' while comments are enabled, and it
\* does not begin with whitespace followed by '!'.
ReadsAlike(foo) ==
    /\ options.nocomment \/ ~StartsWith(Trim(foo), <<"#">>)
    /\ ~(foo # Trim(foo) /\ StartsWith(Trim(foo), <<"!">>))

\* C4: with negation enabled and not inverted, match(L, '!!foo') equals
\* match(L, 'foo') for every foo that is read alike in both places, and a
\* pattern with an odd count of leading '!' acts as an exclude pattern.
C4_NegationParity ==
    PlainNegation =>
        /\ (mpc = "done" /\ count = 1 /\ StartsWith(LastPattern, <<"!", "!">>)
               /\ ReadsAlike(DropFirst(LastPattern, 2))) =>
              mresult = SoleMatch(DropFirst(LastPattern, 2))
        /\ (count >= 1 /\ LastBangs % 2 = 1) => ActsAsExclude

C4_Witness ==
    /\ PlainNegation
    /\ mpc = "done" /\ count = 1
    /\ list = <<S_hash, S_a>>
    /\ applied.pattern = <<"!", "!">> \o S_star
    /\ mresult = <<S_hash, S_a>>

\* C5 as stated: with negation enabled and inverted, a pattern with zero or
\* an even count of leading '!' is an exclude pattern and one with an odd
\* count an include pattern: always the opposite of the rule not inverted.
C5_Original ==
    (~options.nonegate /\ options.flipNegate /\ count >= 1 /\ ~applied.skipped) =>
        /\ applied.include = ~(LastBangs % 2 = 0)
        /\ applied.include => applied.before \subseteq applied.map
        /\ ~applied.include => applied.map \subseteq applied.before

\* C5: with negation enabled and inverted, a pattern with a positive even
\* count of leading '!' is an exclude pattern and one with an odd count an
\* include pattern; a pattern with no leading '!' stays an include pattern.
C5_InvertedParity ==
    (~options.nonegate /\ options.flipNegate /\ count >= 1 /\ ~applied.skipped) =>
        /\ applied.include = (LastBangs = 0 \/ LastBangs % 2 = 1)
        /\ applied.include => applied.before \subseteq applied.map
        /\ ~applied.include => applied.map \subseteq applied.before

C5_Witness ==
    /\ ~options.nonegate /\ options.flipNegate
    /\ count = 2
    /\ applied.pattern = <<"!", "!">> \o S_a
    /\ ~applied.include
    /\ S_a \in applied.before
    /\ S_a \notin applied.map

\* The claim's words for the rooting rule
HasSeparator(str) == Contains(str, Slash) \/ (win32 /\ Contains(str, Backslash))
EndsInSeparator(str) ==
    EndsWith(str, <<Slash>>) \/ (win32 /\ EndsWith(str, <<Backslash>>))
MustBeRooted(sub) ==
    /\ patternRoot # <<>>
    /\ ~IsRooted(sub, win32)
    /\ (~options.matchBase \/ HasSeparator(sub))
RootThenPattern(sub) ==
    patternRoot \o (IF EndsInSeparator(patternRoot) THEN <<>> ELSE <<PathSep(win32)>>)
                \o sub
BareDrive(str) == win32 /\ Len(str) = 2 /\ str[1] \in Letters /\ str[2] = ":"

\* C7 as stated: a sub-pattern that must be rooted is applied as patternRoot,
\* one separator unless patternRoot ends in one, then the sub-pattern; a
\* sub-pattern that is rooted already is applied as it is.
C7_Original ==
    \A i \in 1..Len(applied.subs) :
        LET s == applied.subs[i] IN
        /\ MustBeRooted(s.sub) => s.effective = RootThenPattern(s.sub)
        /\ IsRooted(s.sub, win32) => s.effective = s.sub

\* C7: as stated, except that on win32 a patternRoot that is a bare drive
\* (a letter and a colon) is followed by the sub-pattern with no separator.
C7_Rooting ==
    \A i \in 1..Len(applied.subs) :
        LET s == applied.subs[i] IN
        /\ (MustBeRooted(s.sub) /\ ~BareDrive(patternRoot)) =>
              s.effective = RootThenPattern(s.sub)
        /\ (MustBeRooted(s.sub) /\ BareDrive(patternRoot)) =>
              s.effective = patternRoot \o s.sub
        /\ IsRooted(s.sub, win32) => s.effective = s.sub

C7_Witness ==
    /\ ~win32
    /\ patternRoot = S_r
    /\ list = <<S_r_d_a, S_r_a>>
    /\ applied.pattern = S_a
    /\ applied.subs = << [sub |-> S_a, effective |-> S_r_a] >>
    /\ map = {S_r_a}

====
